---- MODULE Spec2Model ----
(***************************************************************************)
(* The asynchronous state store (StateAsync): an in-memory mapping with an *)
(* optional storage binding, a per-operation fallback protocol, and an     *)
(* event register.  One action per store operation; every operation is     *)
(* taken to completion before the next one starts (the caller awaits each  *)
(* call).  The storage binding is the environment: each call to it either  *)
(* throws or answers.                                                      *)
(***************************************************************************)
EXTENDS Integers, Sequences, FiniteSets, TLC

VARIABLES
  currentState,   \* props.currentState: the in-memory mapping (own properties)
  eventHandlers,  \* props.eventHandlers: event name -> sequence of handlers
  emitEvents,     \* props.emitEvents
  storage,        \* props.storage: which binding, if any, is attached
  remote,         \* the contents held by the binding (outside the store)
  last,           \* the operation that completed last, as its caller saw it
  inflight,       \* set calls suspended on the binding, and those settled
  contract,       \* the teaching contract a consumer holds, if any
  peer,           \* a second store created by the same caller, if any
  emission        \* the emit pass in progress, if any, when followed step by step

vars == <<currentState, eventHandlers, emitEvents, storage, remote, last,
          inflight, contract, peer, emission>>

----------------------------------------------------------------------------
(* Bounds *)

\* Total number of handler registrations the model lets `on` make on a store
\* with a binding, and on a store without one.
MaxHandlers == 1
MaxHandlersMemory == 2

\* Number of set calls that may be suspended on the binding together.
MaxCalls == 2

----------------------------------------------------------------------------
(* JavaScript values and plain objects *)

Undefined == "undefined"
Null == "null"
\* The values a caller stores: undefined, null and an ordinary value.
Values == {Undefined, Null, "a"}

\* Keys the callers use: an ordinary name, and a name that every plain
\* object inherits from Object.prototype.
Keys == {"k", "toString"}
ProtoKeys == {"toString"}
\* The function value that reading an inherited name yields.
InheritedFn == "function"

\* The object literal {}.
EmptyObject == [x \in {} |-> Undefined]

\* `key in obj`: own property or inherited one.
HasProp(obj, key) == key \in DOMAIN obj \/ key \in ProtoKeys

\* `obj[key]`: own value, else the inherited one, else undefined.
GetProp(obj, key) ==
  IF key \in DOMAIN obj THEN obj[key]
  ELSE IF key \in ProtoKeys THEN InheritedFn
  ELSE Undefined

\* `obj[key] = value`: creates or overwrites the own property.
PutProp(obj, key, value) ==
  [x \in (DOMAIN obj) \cup {key} |-> IF x = key THEN value ELSE obj[x]]

\* `delete obj[key]`: removes the own property, if any.
DeleteProp(obj, key) == [x \in (DOMAIN obj) \ {key} |-> obj[x]]

\* `{ ...obj }`: a fresh object with the own properties of obj.
Spread(obj) == [x \in DOMAIN obj |-> obj[x]]

\* `value ?? undefined`
Nullish(value) == IF value \in {Null, Undefined} THEN Undefined ELSE value

\* `value || null` on the modelled values (the ordinary values are truthy).
OrNull(value) == IF value \in {Null, Undefined} THEN Null ELSE value

\* A JavaScript boolean as a result value.
Bool(b) == IF b THEN "true" ELSE "false"

----------------------------------------------------------------------------
(* Events and handlers *)

\* `${key}.changed`
ChangedEvent(key) ==
  CASE key = "k" -> "k.changed"
    [] key = "toString" -> "toString.changed"

\* The event names callers subscribe to and emit by hand.
EventNames == {"k.changed", "custom.event"}

\* Handlers: h1 returns normally, hx throws when invoked.
Handlers == {"h1", "hx"}
Throwing == {"hx"}

\* Payloads of manual emissions.
ManualData == {<<"hello">>}

\* eventHandlers.get(event) || []
HandlersFor(event) ==
  IF event \in DOMAIN eventHandlers THEN eventHandlers[event] ELSE <<>>

\* Number of registrations held by the register.
RECURSIVE CountHandlers(_)
CountHandlers(evs) ==
  IF evs = {} THEN 0
  ELSE LET e == CHOOSE x \in evs : TRUE
       IN Len(eventHandlers[e]) + CountHandlers(evs \ {e})

\* The registrations the model explores for the store at hand.
HandlerBound == IF storage.attached THEN MaxHandlers ELSE MaxHandlersMemory

\* The for-loop of emit: handlers run in order until one throws.
RECURSIVE RunHandlers(_, _, _)
RunHandlers(hs, event, data) ==
  IF hs = <<>> THEN <<>>
  ELSE LET call == [handler |-> Head(hs), event |-> event, data |-> data]
       IN IF Head(hs) \in Throwing THEN <<call>>
          ELSE <<call>> \o RunHandlers(Tail(hs), event, data)

\* The invocations emit(event, data) makes.
EmitRun(event, data) == RunHandlers(HandlersFor(event), event, data)

\* An emit that swallows what its handlers throw.
EmitThrows_swallowed(run) == FALSE

\* Whether that emission ends by a handler's throw.
EmitThrows(run) == run /= <<>> /\ run[Len(run)].handler \in Throwing

----------------------------------------------------------------------------
(* The storage binding (environment) *)

\* TTL arguments of set.
TTLs == {Undefined, "5000"}

NoStorage == [attached |-> FALSE, faithful |-> FALSE, exists |-> FALSE, clear |-> FALSE]

\* A binding is either a key/value store that answers from what it holds
\* (as the demo's MockStorageAdapter) or a black box whose answers are
\* arbitrary (as the demo's UnreliableStorage); exists and clear are optional.
Storages ==
  {NoStorage} \cup
  [attached : {TRUE}, faithful : BOOLEAN, exists : BOOLEAN, clear : BOOLEAN]

\* The record of one binding call: which capability, whether it threw, what
\* it answered, and the contents the binding holds afterwards.
Call(name, threw, ret, contents) ==
  [name |-> name, threw |-> threw, ret |-> ret, remote |-> contents]

NoCall == Call("none", FALSE, Undefined, remote)
NoCallInit == Call("none", FALSE, Undefined, EmptyObject)

\* Map.get(key) on the binding's contents: the value, else undefined.
MapGet(map, key) == IF key \in DOMAIN map THEN map[key] ELSE Undefined

\* storage.get(key)
BindingGet(key) ==
  {Call("get", TRUE, Undefined, remote)} \cup
  { Call("get", FALSE, r, remote) :
      r \in IF storage.faithful THEN {OrNull(MapGet(remote, key))} ELSE Values }

\* A binding call that received a ttl argument.
WithTtl(call, ttl) ==
  [name |-> call.name, threw |-> call.threw, ret |-> call.ret,
   remote |-> call.remote, ttl |-> ttl]

\* storage.set(key, value, ttl)
BindingSet(key, value, ttl) ==
  { WithTtl(Call("set", TRUE, Undefined, remote), ttl),
    WithTtl(Call("set", FALSE, Undefined,
                 IF storage.faithful THEN PutProp(remote, key, value)
                 ELSE remote), ttl) }

\* storage.delete(key)
BindingDelete(key) ==
  {Call("delete", TRUE, Undefined, remote)} \cup
  IF storage.faithful
    THEN {Call("delete", FALSE, Bool(key \in DOMAIN remote), DeleteProp(remote, key))}
    ELSE {Call("delete", FALSE, Bool(b), remote) : b \in BOOLEAN}

\* storage.exists(key)
BindingExists(key) ==
  {Call("exists", TRUE, Undefined, remote)} \cup
  { Call("exists", FALSE, Bool(b), remote) :
      b \in IF storage.faithful THEN {key \in DOMAIN remote} ELSE BOOLEAN }

\* storage.clear()
BindingClear ==
  { Call("clear", TRUE, Undefined, remote),
    Call("clear", FALSE, Undefined,
         IF storage.faithful THEN EmptyObject ELSE remote) }

----------------------------------------------------------------------------
(* The store *)

\* What the caller of an operation saw, and what the operation did.
Done(op, key, value, ttl, call, result, error, warnings, invoked) ==
  [op |-> op, key |-> key, value |-> value, ttl |-> ttl,
   call |-> [name |-> call.name, threw |-> call.threw, ret |-> call.ret,
             ttl |-> IF "ttl" \in DOMAIN call THEN call.ttl ELSE Undefined],
   result |-> result, error |-> error, warnings |-> warnings,
   invoked |-> invoked]

\* A store that lets the binding's error escape.
TryCatch_rethrow(call) ==
  [error |-> IF call.threw THEN "binding" ELSE "none", warnings |-> 0]

\* A store that reports a missing capability like a failed call.
TryCatch_warnMissing(call) ==
  [error |-> "none",
   warnings |-> IF call.threw \/ call.name = "none" THEN 1 ELSE 0]

\* try { await storage.<capability>(...) } catch (error) { console.warn(...) }
\* The binding's error is reported as one warning and not rethrown.
TryCatch(call) ==
  [error |-> "none", warnings |-> IF call.threw THEN 1 ELSE 0]

\* A get that falls back to memory when the binding reports not found.
getResult_merge(key, call) ==
  IF storage.attached /\ ~call.threw /\ Nullish(call.ret) /= Undefined
    THEN call.ret
    ELSE GetProp(currentState, key)

\* The value get(key) resolves to.
getResult(key, call) ==
  IF storage.attached /\ ~call.threw
    THEN Nullish(call.ret)
    ELSE GetProp(currentState, key)

\* A get that caches what the binding answered.
getMemory_readThrough(key, call) ==
  IF storage.attached /\ ~call.threw /\ Nullish(call.ret) /= Undefined
    THEN PutProp(currentState, key, call.ret)
    ELSE currentState

\* The in-memory mapping get(key) leaves behind: it assigns nothing.
getMemory(key, call) == currentState

\* A get that replays a value held only in memory once the binding answers.
getRemote_reconcile(key, call) ==
  IF /\ storage.attached /\ storage.faithful /\ ~call.threw
     /\ key \notin DOMAIN call.remote /\ key \in DOMAIN currentState
    THEN PutProp(call.remote, key, currentState[key])
    ELSE call.remote

\* The binding's contents after get(key): what storage.get left.
getRemote(key, call) == call.remote

get(key) ==
  \E call \in IF storage.attached THEN BindingGet(key) ELSE {NoCall} :
    /\ last' = Done("get", key, Undefined, Undefined, call,
                    getResult(key, call),
                    TryCatch(call).error, TryCatch(call).warnings, <<>>)
    /\ currentState' = getMemory(key, call)
    /\ remote' = getRemote(key, call)
    /\ UNCHANGED <<emission, peer, inflight, contract, eventHandlers, emitEvents, storage>>

\* A set that never writes memory while a binding is attached.
setMemory_noFallback(key, value, call) ==
  IF storage.attached THEN currentState ELSE PutProp(currentState, key, value)

\* A set that treats undefined as "nothing to store".
setMemory_dropUndefined(key, value, call) ==
  IF value = Undefined THEN currentState
  ELSE IF storage.attached /\ ~call.threw THEN currentState
  ELSE PutProp(currentState, key, value)

\* A set whose fallback write does not re-create a key that is gone.
setMemory_keepDeleted(key, value, call) ==
  IF storage.attached
    THEN IF call.threw /\ key \in DOMAIN currentState
           THEN PutProp(currentState, key, value) ELSE currentState
    ELSE PutProp(currentState, key, value)

\* The in-memory mapping set(key, value) leaves behind.
setMemory(key, value, call) ==
  IF storage.attached
    THEN IF call.threw THEN PutProp(currentState, key, value) ELSE currentState
    ELSE PutProp(currentState, key, value)

\* A set that never fires the change event.
setEmit_never(key, oldValue, value) == <<>>

\* A set that fires the change event whatever emitEvents says.
setEmit_always(key, oldValue, value) ==
  EmitRun(ChangedEvent(key), <<oldValue, value>>)

\* The change event of set(key, value), if events are enabled.
setEmit(key, oldValue, value) ==
  IF emitEvents THEN EmitRun(ChangedEvent(key), <<oldValue, value>>) ELSE <<>>

\* A set that keeps the ttl to itself.
setTtl_dropped(ttl) == Undefined

\* The ttl set hands to storage.set: its own third argument.
setTtl(ttl) == ttl

set(key, value, ttl) ==
  \E call \in IF storage.attached
                 THEN BindingSet(key, value, setTtl(ttl)) ELSE {NoCall} :
    LET oldValue == GetProp(currentState, key)
        run == setEmit(key, oldValue, value)
    IN /\ currentState' = setMemory(key, value, call)
       /\ remote' = call.remote
       /\ last' = Done("set", key, value, ttl, call, Undefined,
                       IF TryCatch(call).error /= "none" THEN TryCatch(call).error
                       ELSE IF EmitThrows(run) THEN "handler" ELSE "none",
                       TryCatch(call).warnings, run)
       /\ UNCHANGED <<emission, peer, inflight, contract, eventHandlers, emitEvents, storage>>

\* A has that tests the value instead of the key.
hasResult_byValue(key, call) ==
  IF storage.attached /\ storage.exists /\ ~call.threw
    THEN call.ret
    ELSE Bool(GetProp(currentState, key) \notin {Null, Undefined})

\* The boolean has(key) resolves to.
hasResult(key, call) ==
  IF storage.attached /\ storage.exists /\ ~call.threw
    THEN call.ret
    ELSE Bool(HasProp(currentState, key))

has(key) ==
  \E call \in IF storage.attached /\ storage.exists
                 THEN BindingExists(key) ELSE {NoCall} :
    /\ last' = Done("has", key, Undefined, Undefined, call,
                    hasResult(key, call),
                    TryCatch(call).error, TryCatch(call).warnings, <<>>)
    /\ remote' = call.remote
    /\ UNCHANGED <<emission, peer, inflight, contract, currentState, eventHandlers, emitEvents, storage>>

\* The boolean delete(key) resolves to: storageDeleted || existed.
deleteResult(key, call) ==
  LET storageDeleted == storage.attached /\ ~call.threw /\ call.ret = Bool(TRUE)
      existed == HasProp(currentState, key)
  IN Bool(storageDeleted \/ existed)

\* A delete that keeps the memory entry when the binding's delete failed.
deleteMemory_onSuccess(key, call) ==
  IF call.threw THEN currentState ELSE DeleteProp(currentState, key)

\* The in-memory mapping delete(key) leaves behind.
deleteMemory(key, call) == DeleteProp(currentState, key)

delete(key) ==
  \E call \in IF storage.attached THEN BindingDelete(key) ELSE {NoCall} :
    /\ currentState' = deleteMemory(key, call)
    /\ remote' = call.remote
    /\ last' = Done("delete", key, Undefined, Undefined, call,
                    deleteResult(key, call),
                    TryCatch(call).error, TryCatch(call).warnings, <<>>)
    /\ UNCHANGED <<emission, peer, inflight, contract, eventHandlers, emitEvents, storage>>

\* A clear that keeps memory when the binding's clear failed.
clearMemory_onSuccess(call) ==
  IF call.threw THEN currentState ELSE EmptyObject

\* The in-memory mapping clear() leaves behind.
clearMemory(call) == EmptyObject

clear ==
  \E call \in IF storage.attached /\ storage.clear
                 THEN BindingClear ELSE {NoCall} :
    /\ currentState' = clearMemory(call)
    /\ remote' = call.remote
    /\ last' = Done("clear", Undefined, Undefined, Undefined, call, Undefined,
                    TryCatch(call).error, TryCatch(call).warnings, <<>>)
    /\ UNCHANGED <<emission, peer, inflight, contract, eventHandlers, emitEvents, storage>>

\* The mapping getAll() returns.
getAllResult == Spread(currentState)

getAll ==
  /\ last' = Done("getAll", Undefined, Undefined, Undefined, NoCall, Undefined,
                  "none", 0, <<>>)
  /\ UNCHANGED <<emission, peer, inflight, contract, currentState, eventHandlers, emitEvents, storage, remote>>

on(event, handler) ==
  /\ CountHandlers(DOMAIN eventHandlers) < HandlerBound
  /\ eventHandlers' =
       [e \in (DOMAIN eventHandlers) \cup {event} |->
          IF e = event THEN Append(HandlersFor(event), handler)
          ELSE eventHandlers[e]]
  /\ last' = Done("on", event, Undefined, Undefined, NoCall, Undefined,
                  "none", 0, <<>>)
  /\ UNCHANGED <<emission, peer, inflight, contract, currentState, emitEvents, storage, remote>>

emit(event, data) ==
  LET run == EmitRun(event, data)
  IN /\ last' = Done("emit", event, Undefined, Undefined, NoCall, Undefined,
                     IF EmitThrows(run) THEN "handler" ELSE "none", 0, run)
     /\ UNCHANGED <<emission, peer, inflight, contract, currentState, eventHandlers, emitEvents, storage, remote>>

----------------------------------------------------------------------------
(* Construction and the specification *)

\* config.initialState, and what a binding may already hold.
InitialStates == {EmptyObject, [x \in {"k"} |-> Null]}
InitialRemotes == {EmptyObject, [x \in {"k"} |-> "a"]}

\* The configurations a store is created with; emitEvents may be omitted.
Configs ==
  [initialState : InitialStates, emitEvents : BOOLEAN, storage : Storages]
  \cup [initialState : InitialStates, storage : Storages]

\* No set call in flight or settled; no contract handed out.
NoCalls == [pending |-> [x \in {} |-> Undefined], settled |-> <<>>]
NoContract ==
  [taught |-> FALSE, capabilities |-> {}, live |-> TRUE, snapshot |-> EmptyObject]

\* No emit pass in progress.
NoEmission ==
  [active |-> FALSE, event |-> Undefined, data |-> <<>>, next |-> 0, started |-> 0]

\* No second store.
NoPeer == [created |-> FALSE, currentState |-> EmptyObject, shares |-> FALSE]

\* StateAsync.create(config)
create(config) ==
  /\ currentState = Spread(config.initialState)
  /\ eventHandlers = [x \in {} |-> <<>>]
  /\ emitEvents = (IF "emitEvents" \in DOMAIN config THEN config.emitEvents ELSE FALSE)
  /\ storage = config.storage

\* What the configuration says about emitEvents: true, false or nothing.
EmitOption(config) ==
  IF "emitEvents" \in DOMAIN config THEN Bool(config.emitEvents) ELSE Undefined

Init ==
  /\ \E config \in Configs :
       /\ create(config)
       /\ last = Done("create", Undefined, EmitOption(config), Undefined,
                      NoCallInit, Undefined, "none", 0, <<>>)
  /\ inflight = NoCalls
  /\ contract = NoContract
  /\ emission = NoEmission
  /\ peer = NoPeer
  /\ remote \in IF storage.attached /\ storage.faithful
                  THEN InitialRemotes ELSE {EmptyObject}

Next ==
  \/ \E key \in Keys : get(key)
  \/ \E key \in Keys, value \in Values, ttl \in TTLs : set(key, value, ttl)
  \/ \E key \in Keys : has(key)
  \/ \E key \in Keys : delete(key)
  \/ clear
  \/ getAll
  \/ \E event \in EventNames, handler \in Handlers : on(event, handler)
  \/ \E event \in EventNames, data \in ManualData : emit(event, data)

Spec == Init /\ [][Next]_vars

----------------------------------------------------------------------------
(* The synchronous State: memory only, every set fires its change event.   *)
(* It has no binding and no emitEvents flag; storage stays NoStorage and    *)
(* emitEvents is not read.                                                  *)

State_get(key) ==
  /\ last' = Done("get", key, Undefined, Undefined, NoCall,
                  GetProp(currentState, key), "none", 0, <<>>)
  /\ UNCHANGED <<emission, peer, currentState, eventHandlers, emitEvents, storage, remote,
                 inflight, contract>>

State_set(key, value) ==
  LET oldValue == GetProp(currentState, key)
      run == EmitRun(ChangedEvent(key), <<oldValue, value>>)
  IN /\ currentState' = PutProp(currentState, key, value)
     /\ last' = Done("set", key, value, Undefined, NoCall, Undefined,
                     IF EmitThrows(run) THEN "handler" ELSE "none", 0, run)
     /\ UNCHANGED <<emission, peer, eventHandlers, emitEvents, storage, remote, inflight, contract>>

State_has(key) ==
  /\ last' = Done("has", key, Undefined, Undefined, NoCall,
                  Bool(HasProp(currentState, key)), "none", 0, <<>>)
  /\ UNCHANGED <<emission, peer, currentState, eventHandlers, emitEvents, storage, remote,
                 inflight, contract>>

State_getAll ==
  /\ last' = Done("getAll", Undefined, Undefined, Undefined, NoCall, Undefined,
                  "none", 0, <<>>)
  /\ UNCHANGED <<emission, peer, currentState, eventHandlers, emitEvents, storage, remote,
                 inflight, contract>>

State_on(event, handler) ==
  /\ CountHandlers(DOMAIN eventHandlers) < HandlerBound
  /\ eventHandlers' =
       [e \in (DOMAIN eventHandlers) \cup {event} |->
          IF e = event THEN Append(HandlersFor(event), handler)
          ELSE eventHandlers[e]]
  /\ last' = Done("on", event, Undefined, Undefined, NoCall, Undefined,
                  "none", 0, <<>>)
  /\ UNCHANGED <<emission, peer, currentState, emitEvents, storage, remote, inflight, contract>>

State_emit(event, data) ==
  LET run == EmitRun(event, data)
  IN /\ last' = Done("emit", event, Undefined, Undefined, NoCall, Undefined,
                     IF EmitThrows(run) THEN "handler" ELSE "none", 0, run)
     /\ UNCHANGED <<emission, peer, currentState, eventHandlers, emitEvents, storage, remote,
                    inflight, contract>>

\* State.create(config)
State_create(config) ==
  /\ currentState = Spread(config.initialState)
  /\ eventHandlers = [x \in {} |-> <<>>]

InitSync ==
  /\ \E config \in [initialState : InitialStates] : State_create(config)
  /\ emitEvents = TRUE
  /\ storage = NoStorage
  /\ remote = EmptyObject
  /\ last = Done("create", Undefined, Undefined, Undefined, NoCallInit,
                 Undefined, "none", 0, <<>>)
  /\ inflight = NoCalls
  /\ contract = NoContract
  /\ emission = NoEmission
  /\ peer = NoPeer

NextSync ==
  \/ \E key \in Keys : State_get(key)
  \/ \E key \in Keys, value \in Values : State_set(key, value)
  \/ \E key \in Keys : State_has(key)
  \/ State_getAll
  \/ \E event \in EventNames, handler \in Handlers : State_on(event, handler)
  \/ \E event \in EventNames, data \in ManualData : State_emit(event, data)

SpecSync == InitSync /\ [][NextSync]_vars

----------------------------------------------------------------------------
(* A caller that changes the mapping getAll() gave it *)

\* A getAll that hands out props.currentState itself.
getAllObject_alias == "currentState"

\* Which object getAll() hands out: the spread builds a new object, not
\* props.currentState.
getAllObject == "copy"

\* The caller assigns returned[key] = value.
mutateReturned(key, value) ==
  /\ last.op \in {"getAll", "mutate", "unset"}
  /\ currentState' = (IF getAllObject = "currentState"
                        THEN PutProp(currentState, key, value) ELSE currentState)
  /\ last' = Done("mutate", key, value, Undefined, NoCall, Undefined,
                  "none", 0, <<>>)
  /\ UNCHANGED <<emission, peer, eventHandlers, emitEvents, storage, remote, inflight, contract>>

\* The caller deletes returned[key].
deleteReturned(key) ==
  /\ last.op \in {"getAll", "mutate", "unset"}
  /\ currentState' = (IF getAllObject = "currentState"
                        THEN DeleteProp(currentState, key) ELSE currentState)
  /\ last' = Done("unset", key, Undefined, Undefined, NoCall, Undefined,
                  "none", 0, <<>>)
  /\ UNCHANGED <<emission, peer, eventHandlers, emitEvents, storage, remote, inflight, contract>>

NextCopy ==
  \/ \E key \in Keys : get(key)
  \/ \E key \in Keys, value \in Values : set(key, value, Undefined)
  \/ \E key \in Keys : has(key)
  \/ \E key \in Keys : delete(key)
  \/ clear
  \/ getAll
  \/ \E key \in Keys, value \in Values : mutateReturned(key, value)
  \/ \E key \in Keys : deleteReturned(key)

SpecCopy == Init /\ [][NextCopy]_vars

----------------------------------------------------------------------------
(* teach(): the capabilities handed to another unit *)

\* A contract that also hands out set.
teachContract_withSet ==
  [taught |-> TRUE, capabilities |-> {"get", "has", "getAll", "on", "set"},
   live |-> TRUE, snapshot |-> EmptyObject]

\* A contract whose reads answer from a copy of memory made by teach().
teachContract_snapshot ==
  [taught |-> TRUE, capabilities |-> {"get", "has", "getAll", "on"},
   live |-> FALSE, snapshot |-> Spread(currentState)]

\* The contract teach() returns: four closures over `this`.
teachContract ==
  [taught |-> TRUE, capabilities |-> {"get", "has", "getAll", "on"},
   live |-> TRUE, snapshot |-> EmptyObject]

teach ==
  /\ contract' = teachContract
  /\ last' = Done("teach", Undefined, Undefined, Undefined, NoCall, Undefined,
                  "none", 0, <<>>)
  /\ UNCHANGED <<emission, peer, currentState, eventHandlers, emitEvents, storage, remote, inflight>>

\* capabilities.get: (...args) => this.get(args[0])
teachGetResult(key, call) ==
  IF contract.live THEN getResult(key, call)
  ELSE IF storage.attached /\ ~call.threw THEN Nullish(call.ret)
  ELSE GetProp(contract.snapshot, key)

teach_get(key) ==
  /\ "get" \in contract.capabilities
  /\ \E call \in IF storage.attached THEN BindingGet(key) ELSE {NoCall} :
       /\ last' = Done("teach.get", key, Undefined, Undefined, call,
                       teachGetResult(key, call),
                       TryCatch(call).error, TryCatch(call).warnings, <<>>)
       /\ remote' = call.remote
  /\ UNCHANGED <<emission, peer, currentState, eventHandlers, emitEvents, storage, inflight, contract>>

\* capabilities.has: (...args) => this.has(args[0])
teachHasResult(key, call) ==
  IF contract.live THEN hasResult(key, call)
  ELSE IF storage.attached /\ storage.exists /\ ~call.threw THEN call.ret
  ELSE Bool(HasProp(contract.snapshot, key))

teach_has(key) ==
  /\ "has" \in contract.capabilities
  /\ \E call \in IF storage.attached /\ storage.exists
                    THEN BindingExists(key) ELSE {NoCall} :
       /\ last' = Done("teach.has", key, Undefined, Undefined, call,
                       teachHasResult(key, call),
                       TryCatch(call).error, TryCatch(call).warnings, <<>>)
       /\ remote' = call.remote
  /\ UNCHANGED <<emission, peer, currentState, eventHandlers, emitEvents, storage, inflight, contract>>

\* capabilities.getAll: () => this.getAll()
teachGetAllResult ==
  IF contract.live THEN getAllResult ELSE Spread(contract.snapshot)

teach_getAll ==
  /\ "getAll" \in contract.capabilities
  /\ last' = Done("teach.getAll", Undefined, Undefined, Undefined, NoCall,
                  teachGetAllResult, "none", 0, <<>>)
  /\ UNCHANGED <<emission, peer, currentState, eventHandlers, emitEvents, storage, remote,
                 inflight, contract>>

\* capabilities.on: (...args) => this.on(args[0], args[1])
teach_on(event, handler) ==
  /\ "on" \in contract.capabilities
  /\ CountHandlers(DOMAIN eventHandlers) < HandlerBound
  /\ eventHandlers' =
       [e \in (DOMAIN eventHandlers) \cup {event} |->
          IF e = event THEN Append(HandlersFor(event), handler)
          ELSE eventHandlers[e]]
  /\ last' = Done("teach.on", event, handler, Undefined, NoCall, Undefined,
                  "none", 0, <<>>)
  /\ UNCHANGED <<emission, peer, currentState, emitEvents, storage, remote, inflight, contract>>

\* The owner mutates the store; the other unit uses what it was taught.
NextTeach ==
  \/ \E key \in Keys, value \in Values : set(key, value, Undefined)
  \/ \E key \in Keys : delete(key)
  \/ clear
  \/ teach
  \/ \E key \in Keys : teach_get(key)
  \/ \E key \in Keys : teach_has(key)
  \/ teach_getAll
  \/ \E event \in EventNames, handler \in Handlers : teach_on(event, handler)

SpecTeach == Init /\ [][NextTeach]_vars

----------------------------------------------------------------------------
(* Overlapping set calls: a set with a binding suspends at                  *)
(* `await storage.set(...)` and other calls run before it resumes.          *)

\* The set calls invoked so far.
CallsMade == Len(inflight.settled) + Cardinality(DOMAIN inflight.pending)

\* set(key, value) up to its await: oldValue is read, storage.set is called.
\* The binding's write takes effect (or fails) in the call; its promise
\* settles later.
setCall(key, value) ==
  /\ storage.attached
  /\ CallsMade < MaxCalls
  /\ \E call \in BindingSet(key, value, Undefined) :
       LET id == CallsMade + 1
           this == [key |-> key, value |-> value,
                    oldValue |-> GetProp(currentState, key),
                    started |-> Len(inflight.settled),
                    call |-> [name |-> call.name, threw |-> call.threw,
                              ret |-> call.ret, ttl |-> call.ttl]]
       IN /\ inflight' = [inflight EXCEPT !.pending =
                 [i \in (DOMAIN inflight.pending) \cup {id} |->
                    IF i = id THEN this ELSE inflight.pending[i]]]
          /\ remote' = call.remote
  /\ last' = Done("set.call", key, value, Undefined, NoCall, Undefined,
                  "none", 0, <<>>)
  /\ UNCHANGED <<emission, peer, currentState, eventHandlers, emitEvents, storage, contract>>

\* A set that reads oldValue when it resumes.
setOldValue_fresh(atCall, atResume) == atResume

\* The oldValue of the change event: `const oldValue` is assigned before the
\* await and not read again.
setOldValue(atCall, atResume) == atCall

\* set(key, value) from its await on: the catch block writes memory, then the
\* change event fires. Promises of the Map-based binding settle in call
\* order; those of any other binding settle in any order.
setSettle(id) ==
  /\ id \in DOMAIN inflight.pending
  /\ storage.faithful => \A i \in DOMAIN inflight.pending : id <= i
  /\ LET this == inflight.pending[id]
         run == setEmit(this.key,
                        setOldValue(this.oldValue, GetProp(currentState, this.key)),
                        this.value)
     IN /\ currentState' = setMemory(this.key, this.value, this.call)
        /\ inflight' =
             [pending |-> [i \in (DOMAIN inflight.pending) \ {id} |->
                             inflight.pending[i]],
              settled |-> Append(inflight.settled, this)]
        /\ last' = Done("set", this.key, this.value, Undefined, this.call,
                        Undefined,
                        IF TryCatch(this.call).error /= "none"
                          THEN TryCatch(this.call).error
                        ELSE IF EmitThrows(run) THEN "handler" ELSE "none",
                        TryCatch(this.call).warnings, run)
  /\ UNCHANGED <<emission, peer, eventHandlers, emitEvents, storage, remote, contract>>

InitOverlap == Init /\ storage.attached

NextOverlap ==
  \/ \E key \in Keys, value \in Values : setCall(key, value)
  \/ \E id \in 1..MaxCalls : setSettle(id)

SpecOverlap == InitOverlap /\ [][NextOverlap]_vars

\* Overlapping sets on one key of a store that emits, with subscribers, and
\* with delete and clear calls completing in between; the binding has all
\* five capabilities.
InitStale == InitOverlap /\ emitEvents /\ storage.exists /\ storage.clear

NextStale ==
  \/ \E value \in Values : setCall("k", value)
  \/ \E id \in 1..MaxCalls : setSettle(id)
  \/ delete("k")
  \/ clear
  \/ on("k.changed", "h1")

SpecStale == InitStale /\ [][NextStale]_vars

----------------------------------------------------------------------------
(* Subscribing to a pattern: the event name given to on() is a Map key like *)
(* any other; emit looks the emitted name up by equality.                   *)

\* The name the README subscribes to "any state change" with.
Patterns == {"*.changed"}

NextPattern ==
  \/ NextSync
  \/ \E event \in Patterns, handler \in Handlers : State_on(event, handler)

SpecPattern == InitSync /\ [][NextPattern]_vars

----------------------------------------------------------------------------
(* Two stores of one caller: both created from the same initialState       *)
(* object; the second has no binding, or was given the same binding.       *)

\* A create that keeps config.initialState itself as props.currentState.
createObject_alias == "initialState"

\* Which object create() stores as props.currentState: the spread builds a
\* new object, not config.initialState.
createObject == "copy"

\* The caller assigns initialState[key] = value after creation.
mutateInitial(key, value) ==
  /\ currentState' = (IF createObject = "initialState"
                        THEN PutProp(currentState, key, value) ELSE currentState)
  /\ peer' = (IF createObject = "initialState"
                THEN [peer EXCEPT !.currentState = PutProp(@, key, value)]
                ELSE peer)
  /\ last' = Done("initial.put", key, value, Undefined, NoCall, Undefined,
                  "none", 0, <<>>)
  /\ UNCHANGED <<emission, eventHandlers, emitEvents, storage, remote, inflight, contract>>

\* The caller deletes initialState[key] after creation.
deleteInitial(key) ==
  /\ currentState' = (IF createObject = "initialState"
                        THEN DeleteProp(currentState, key) ELSE currentState)
  /\ peer' = (IF createObject = "initialState"
                THEN [peer EXCEPT !.currentState = DeleteProp(@, key)]
                ELSE peer)
  /\ last' = Done("initial.delete", key, Undefined, Undefined, NoCall, Undefined,
                  "none", 0, <<>>)
  /\ UNCHANGED <<emission, eventHandlers, emitEvents, storage, remote, inflight, contract>>

\* set(key, value) on the second store (created without emitEvents).
peer_set(key, value) ==
  \E call \in IF peer.shares THEN BindingSet(key, value, Undefined) ELSE {NoCall} :
    /\ peer' = [peer EXCEPT !.currentState =
                  IF peer.shares /\ ~call.threw THEN @
                  ELSE PutProp(@, key, value)]
    /\ remote' = call.remote
    /\ last' = Done("peer.set", key, value, Undefined, call, Undefined,
                    TryCatch(call).error, TryCatch(call).warnings, <<>>)
    /\ UNCHANGED <<emission, currentState, eventHandlers, emitEvents, storage, inflight,
                   contract>>

\* delete(key) on the second store.
peer_delete(key) ==
  \E call \in IF peer.shares THEN BindingDelete(key) ELSE {NoCall} :
    /\ peer' = [peer EXCEPT !.currentState = DeleteProp(@, key)]
    /\ remote' = call.remote
    /\ last' = Done("peer.delete", key, Undefined, Undefined, call,
                    Bool((peer.shares /\ ~call.threw /\ call.ret = Bool(TRUE))
                         \/ HasProp(peer.currentState, key)),
                    TryCatch(call).error, TryCatch(call).warnings, <<>>)
    /\ UNCHANGED <<emission, currentState, eventHandlers, emitEvents, storage, inflight,
                   contract>>

\* clear() on the second store.
peer_clear ==
  \E call \in IF peer.shares /\ storage.clear THEN BindingClear ELSE {NoCall} :
    /\ peer' = [peer EXCEPT !.currentState = EmptyObject]
    /\ remote' = call.remote
    /\ last' = Done("peer.clear", Undefined, Undefined, Undefined, call,
                    Undefined,
                    TryCatch(call).error, TryCatch(call).warnings, <<>>)
    /\ UNCHANGED <<emission, currentState, eventHandlers, emitEvents, storage, inflight,
                   contract>>

\* Both stores are created from the same config.initialState, emitEvents
\* being left out.
InitStores ==
  /\ \E config \in [initialState : InitialStates, storage : Storages] :
       /\ create(config)
       /\ last = Done("create", Undefined, EmitOption(config), Undefined,
                      NoCallInit, Undefined, "none", 0, <<>>)
       /\ \E shares \in IF config.storage.attached THEN BOOLEAN ELSE {FALSE} :
            peer = [created |-> TRUE,
                    currentState |-> Spread(config.initialState),
                    shares |-> shares]
  /\ inflight = NoCalls
  /\ contract = NoContract
  /\ emission = NoEmission
  /\ remote \in IF storage.attached /\ storage.faithful
                  THEN InitialRemotes ELSE {EmptyObject}

NextStores ==
  \/ getAll
  \/ \E key \in Keys, value \in Values : mutateInitial(key, value)
  \/ \E key \in Keys : deleteInitial(key)
  \/ \E key \in Keys, value \in Values : peer_set(key, value)
  \/ \E key \in Keys : peer_delete(key)
  \/ peer_clear

SpecStores == InitStores /\ [][NextStores]_vars

----------------------------------------------------------------------------
(* Handlers that call back into the synchronous State. The handler hr does  *)
(* what the orchestration handler of the tests does: it reads a key and,    *)
(* when the value is the awaited one, sets a key and emits a manual event.  *)
(* Everything happens inside the one synchronous call of the outer set.     *)

Reentrant == {"hr"}

\* An invocation; for hr, `saw` is what its get("k") returned.
Invocation(handler, event, data, depth, mem) ==
  [handler |-> handler, event |-> event, data |-> data, depth |-> depth,
   saw |-> IF handler \in Reentrant THEN GetProp(mem, "k") ELSE Undefined]

RECURSIVE SetR(_, _, _, _)
RECURSIVE EmitR(_, _, _, _)
RECURSIVE LoopR(_, _, _, _, _)
RECURSIVE BodyR(_, _, _)

\* A set that fires the change event before it writes.
SetR_emitFirst(mem, key, value, depth) ==
  LET run == EmitR(mem, ChangedEvent(key), <<GetProp(mem, key), value>>, depth)
  IN [run EXCEPT !.mem = IF run.threw THEN @ ELSE PutProp(@, key, value)]

\* State.set on the mapping mem: read oldValue, write, then emit.
SetR(mem, key, value, depth) ==
  EmitR(PutProp(mem, key, value), ChangedEvent(key),
        <<GetProp(mem, key), value>>, depth)

\* State.emit: the handlers of the event, in order.
EmitR(mem, event, data, depth) ==
  LoopR(mem, HandlersFor(event), event, data, depth)

\* What one handler does when invoked.
BodyR(mem, handler, depth) ==
  IF handler \in Throwing
    THEN [mem |-> mem, log |-> <<>>, threw |-> TRUE]
  ELSE IF handler \in Reentrant /\ GetProp(mem, "k") = "a"
    THEN LET s == SetR(mem, "k", Null, depth + 1)
         IN IF s.threw THEN s
            ELSE LET e == EmitR(s.mem, "custom.event", <<"hello">>, depth + 1)
                 IN [mem |-> e.mem, log |-> s.log \o e.log, threw |-> e.threw]
  ELSE [mem |-> mem, log |-> <<>>, threw |-> FALSE]

\* for (const handler of handlers) handler(data): a throw ends the loop.
LoopR(mem, hs, event, data, depth) ==
  IF hs = <<>> THEN [mem |-> mem, log |-> <<>>, threw |-> FALSE]
  ELSE LET entry == Invocation(Head(hs), event, data, depth, mem)
           body == BodyR(mem, Head(hs), depth)
       IN IF body.threw
            THEN [mem |-> body.mem, log |-> <<entry>> \o body.log,
                  threw |-> TRUE]
            ELSE LET rest == LoopR(body.mem, Tail(hs), event, data, depth)
                 IN [mem |-> rest.mem,
                     log |-> <<entry>> \o body.log \o rest.log,
                     threw |-> rest.threw]

Reentrant_set(key, value) ==
  LET run == SetR(currentState, key, value, 1)
  IN /\ currentState' = run.mem
     /\ last' = Done("set", key, value, Undefined, NoCall, Undefined,
                     IF run.threw THEN "handler" ELSE "none", 0, run.log)
     /\ UNCHANGED <<emission, eventHandlers, emitEvents, storage, remote, inflight,
                    contract, peer>>

Reentrant_emit(event, data) ==
  LET run == EmitR(currentState, event, data, 1)
  IN /\ currentState' = run.mem
     /\ last' = Done("emit", event, Undefined, Undefined, NoCall, Undefined,
                     IF run.threw THEN "handler" ELSE "none", 0, run.log)
     /\ UNCHANGED <<emission, eventHandlers, emitEvents, storage, remote, inflight,
                    contract, peer>>

NextReentrant ==
  \/ \E key \in Keys, value \in Values : Reentrant_set(key, value)
  \/ \E event \in EventNames, data \in ManualData : Reentrant_emit(event, data)
  \/ \E event \in EventNames, handler \in Handlers \cup Reentrant :
       State_on(event, handler)

SpecReentrant == InitSync /\ [][NextReentrant]_vars

----------------------------------------------------------------------------
(* emit followed handler by handler, with handlers that call on(). The      *)
(* for-of loop of emit walks the array kept in the register, the same array *)
(* on() pushes to. ha registers h1 for the event it is invoked for; hs      *)
(* registers itself again.                                                  *)

Registrars == {"ha", "hs"}

\* What a registering handler passes to on().
Registers(handler) == IF handler = "ha" THEN "h1" ELSE handler

\* on(event, handler) outside an emit pass.
Grow_on(event, handler) ==
  /\ ~emission.active
  /\ on(event, handler)

\* emit(event, data) up to its loop: handlers = eventHandlers.get(event) || [].
emitStart(event, data) ==
  /\ ~emission.active
  /\ emission' = [active |-> TRUE, event |-> event, data |-> data, next |-> 1,
                  started |-> Len(HandlersFor(event))]
  /\ last' = Done("emit.start", event, Undefined, Undefined, NoCall, Undefined,
                  "none", 0, <<>>)
  /\ UNCHANGED <<currentState, eventHandlers, emitEvents, storage, remote,
                 inflight, contract, peer>>

\* One iteration of the loop: the next element of the array is invoked. A
\* registering handler pushes to that array; a throw ends emit.
emitStep ==
  /\ emission.active
  /\ emission.next <= Len(HandlersFor(emission.event))
  /\ LET handler == HandlersFor(emission.event)[emission.next]
         entry == [handler |-> handler, event |-> emission.event,
                   data |-> emission.data]
     IN /\ (handler \in Registrars) =>
              CountHandlers(DOMAIN eventHandlers) < HandlerBound
        /\ eventHandlers' =
             (IF handler \in Registrars
                THEN [eventHandlers EXCEPT ![emission.event] =
                        Append(@, Registers(handler))]
                ELSE eventHandlers)
        /\ emission' = (IF handler \in Throwing THEN NoEmission
                        ELSE [emission EXCEPT !.next = @ + 1])
        /\ last' = Done(IF handler \in Throwing THEN "emit" ELSE "emit.run",
                        emission.event, Undefined, Undefined, NoCall, Undefined,
                        IF handler \in Throwing THEN "handler" ELSE "none", 0,
                        Append(last.invoked, entry))
  /\ UNCHANGED <<currentState, emitEvents, storage, remote, inflight, contract,
                 peer>>

\* The loop has reached the end of the array: emit returns.
emitEnd ==
  /\ emission.active
  /\ emission.next > Len(HandlersFor(emission.event))
  /\ emission' = NoEmission
  /\ last' = Done("emit", emission.event, Undefined, Undefined, NoCall,
                  Undefined, "none", 0, last.invoked)
  /\ UNCHANGED <<currentState, eventHandlers, emitEvents, storage, remote,
                 inflight, contract, peer>>

NextGrow ==
  \/ \E event \in EventNames, handler \in Handlers \cup Registrars :
       Grow_on(event, handler)
  \/ \E event \in EventNames, data \in ManualData : emitStart(event, data)
  \/ emitStep
  \/ emitEnd

SpecGrow == InitSync /\ [][NextGrow]_vars

----------------------------------------------------------------------------
(* Properties of the fallback protocol *)

\* C1: with a binding attached, get, set, has, delete and clear never raise
\* the binding's error: unless an event handler threw, the call completes
\* normally, and a binding call that threw is recorded as exactly one
\* warning (none when the binding call did not throw).
C1_BindingErrorNeverEscapes ==
  (storage.attached /\ last.op \in {"get", "set", "has", "delete", "clear"}) =>
    /\ last.error /= "binding"
    /\ (~EmitThrows(last.invoked) => last.error = "none")
    /\ last.warnings = (IF last.call.threw THEN 1 ELSE 0)

C1_Witness ==
  /\ storage.attached
  /\ last.op = "set" /\ last.call.name = "set" /\ last.call.threw
  /\ last.error = "none" /\ last.warnings = 1

\* C2: after any set(k, v) that resolved - no binding, delegated write
\* succeeded, delegated write threw - the in-memory mapping returned by
\* getAll holds v for k.
C2_MemoryHoldsValueAfterSet ==
  (last.op = "set" /\ last.error = "none") =>
    (last.key \in DOMAIN getAllResult /\ getAllResult[last.key] = last.value)

\* C3: when the binding's set succeeded for set(k, v) and the binding's get
\* throws on the get(k) that follows, that get resolves to v from memory.
C3_GetAfterDelegatedSet ==
  [][ ( /\ last.op = "set" /\ last.call.name = "set" /\ ~last.call.threw
        /\ last.error = "none"
        /\ last'.op = "get" /\ last'.key = last.key
        /\ last'.call.name = "get" /\ last'.call.threw )
      => (last'.error = "none" /\ last'.result = last.value) ]_vars

C8_ClearEmptiesMemory ==
  (last.op = "clear") => (DOMAIN getAllResult = {})

C8_Witness ==
  /\ storage.attached /\ storage.clear
  /\ last.op = "clear" /\ last.call.name = "clear" /\ last.call.threw
  /\ DOMAIN currentState = {}

\* C9: with no binding, set(k, v) - v null and undefined included - makes k
\* a key of memory holding v and leaves the other keys as they were, and the
\* get(k) that follows resolves to v and the has(k) that follows to true.
C9_SetThenRead ==
  [][ (~storage.attached) =>
        /\ (last'.op = "set") =>
             /\ last'.key \in DOMAIN currentState'
             /\ currentState'[last'.key] = last'.value
             /\ \A other \in Keys \ {last'.key} :
                  /\ (other \in DOMAIN currentState') = (other \in DOMAIN currentState)
                  /\ GetProp(currentState', other) = GetProp(currentState, other)
        /\ (last.op = "set" /\ last'.key = last.key) =>
             /\ (last'.op = "get") => last'.result = last.value
             /\ (last'.op = "has") => last'.result = "true" ]_vars

C9_Witness ==
  /\ ~storage.attached
  /\ last.op = "get" /\ last.key = "k" /\ last.result = "a"
  /\ "toString" \in DOMAIN currentState

\* C10: under every configuration, the get(k) that follows delete(k)
\* resolves to absent and the has(k) that follows resolves to false.
C10_DeleteThenRead ==
  [][ (last.op = "delete" /\ last'.key = last.key) =>
        /\ (last'.op = "get") => last'.result = Undefined
        /\ (last'.op = "has") => last'.result = "false" ]_vars

----------------------------------------------------------------------------
(* Properties of the event register *)

\* C11: with emitEvents enabled and one subscriber on "k.changed", a set of
\* k that finds k absent invokes the handler once with {undefined, v1}, and
\* the set of k that follows invokes it once with {v1, v2} - without a
\* binding and with one, whether the delegated writes succeed or throw.
C11_TwoSetsTwoEvents ==
  [][ ( /\ emitEvents /\ Len(HandlersFor("k.changed")) = 1
        /\ last'.op = "set" /\ last'.key = "k" ) =>
        /\ ("k" \notin DOMAIN currentState) =>
             last'.invoked =
               << [handler |-> HandlersFor("k.changed")[1], event |-> "k.changed",
                   data |-> <<Undefined, last'.value>>] >>
        /\ ( /\ last.op = "set" /\ last.key = "k" /\ Len(last.invoked) = 1
             /\ last.invoked[1].data = <<Undefined, last.value>> ) =>
             last'.invoked =
               << [handler |-> HandlersFor("k.changed")[1], event |-> "k.changed",
                   data |-> <<last.value, last'.value>>] >> ]_vars

\* C12: when emitEvents is false - set to false or omitted at creation - no
\* set, delete or clear invokes a handler; handlers run only through emit.
C12_NoEventsWhenDisabled ==
  /\ (last.op = "create" /\ last.value \in {Undefined, "false"}) => ~emitEvents
  /\ (last.op = "create" /\ last.value = "true") => emitEvents
  /\ (~emitEvents) =>
       /\ (last.op \in {"set", "delete", "clear"}) => last.invoked = <<>>
       /\ (last.invoked /= <<>>) => last.op = "emit"

C12_Witness ==
  /\ ~emitEvents
  /\ last.op = "set" /\ last.key = "k"
  /\ HandlersFor("k.changed") /= <<>>
  /\ last.invoked = <<>>

\* C17: emit(e, d) invokes the handlers registered for e once per
\* registration, in registration order, each with d, and no handler of
\* another name; with no handlers it does nothing and does not throw.
C17_EmitInvokesAllInOrder ==
  (last.op = "emit") =>
    /\ Len(last.invoked) = Len(HandlersFor(last.key))
    /\ \A i \in 1..Len(last.invoked) :
         /\ last.invoked[i].handler = HandlersFor(last.key)[i]
         /\ last.invoked[i].event = last.key
         /\ last.invoked[i].data \in ManualData
    /\ (HandlersFor(last.key) = <<>>) => last.error = "none"

\* C19: no store operation ever raises an error to its caller, whatever the
\* binding and the registered handlers do.
C19_OperationsAlwaysSucceed ==
  last.error = "none"

\* C20: a binding without exists (clear) and one whose exists (clear) throws
\* both give the memory-only result of has (clear); the missing capability
\* is not invoked and records no warning, the throwing one records one.
C20_MissingVersusThrowing ==
  (storage.attached) =>
    /\ (last.op = "has") =>
         /\ (~storage.exists) => (last.call.name = "none" /\ last.warnings = 0)
         /\ (storage.exists) => last.call.name = "exists"
         /\ (storage.exists /\ last.call.threw) => last.warnings = 1
         /\ (~storage.exists \/ last.call.threw) =>
              last.result = Bool(HasProp(currentState, last.key))
    /\ (last.op = "clear") =>
         /\ (~storage.clear) => (last.call.name = "none" /\ last.warnings = 0)
         /\ (storage.clear) => last.call.name = "clear"
         /\ (storage.clear /\ last.call.threw) => last.warnings = 1
         /\ (~storage.clear \/ last.call.threw) => DOMAIN currentState = {}

C20_Witness ==
  /\ storage.attached /\ ~storage.exists
  /\ last.op = "has" /\ last.key = "k" /\ last.call.name = "none"
  /\ "k" \in DOMAIN currentState
  /\ last.result = "true" /\ last.warnings = 0

\* C13: in the synchronous State every set(k, v) invokes each handler
\* registered on "k.changed" exactly once, in order, with {oldValue: the
\* value k held just before the call or undefined if k was absent,
\* newValue: v}, and no handler registered under another name.
C13_SetInvokesEveryHandler ==
  [][ (last'.op = "set") =>
        /\ Len(last'.invoked) = Len(HandlersFor(ChangedEvent(last'.key)))
        /\ \A i \in 1..Len(last'.invoked) :
             last'.invoked[i] =
               [handler |-> HandlersFor(ChangedEvent(last'.key))[i],
                event |-> ChangedEvent(last'.key),
                data |-> << IF last'.key \in DOMAIN currentState
                              THEN currentState[last'.key] ELSE Undefined,
                            last'.value >>] ]_vars

TeachOps == {"teach.get", "teach.has", "teach.getAll", "teach.on"}

\* C15: under every configuration the capabilities of teach() are exactly
\* get, has, getAll and on (never set, delete, emit or clear), and a call to
\* an exported capability leaves the in-memory mapping and the binding's
\* contents as they were.
C15_ExportIsReadOnly ==
  [][ /\ contract'.taught =>
           contract'.capabilities = {"get", "has", "getAll", "on"}
      /\ (last'.op \in TeachOps) =>
           /\ currentState' = currentState
           /\ remote' = remote ]_vars

C15_Witness ==
  /\ contract.taught
  /\ last.op = "teach.get" /\ last.key = "k" /\ last.result = "a"
  /\ storage.attached /\ storage.faithful
  /\ "k" \in DOMAIN remote /\ remote["k"] = "a"

\* The handlers of key's change event up to and including the first that
\* throws.
RECURSIVE UntilThrow(_)
UntilThrow(hs) ==
  IF hs = <<>> THEN <<>>
  ELSE IF Head(hs) \in Throwing THEN <<Head(hs)>>
  ELSE <<Head(hs)>> \o UntilThrow(Tail(hs))

C18_LastSettledWins ==
  ( /\ Len(inflight.settled) = 2 /\ DOMAIN inflight.pending = {}
    /\ inflight.settled[1].key = inflight.settled[2].key
    /\ inflight.settled[1].started = 0 /\ inflight.settled[2].started = 0 )
  => GetProp(currentState, inflight.settled[2].key) = inflight.settled[2].value

\* C21: a handler registered with on('*.changed', h) is invoked on every set
\* of every key, with that change's {oldValue, newValue}.
C21_PatternHearsEverySet ==
  [][ (last'.op = "set") =>
        \A i \in 1..Len(HandlersFor("*.changed")) :
          \E j \in 1..Len(last'.invoked) :
            /\ last'.invoked[j].handler = HandlersFor("*.changed")[i]
            /\ last'.invoked[j].data =
                 <<GetProp(currentState, last'.key), last'.value>> ]_vars

\* C22: on a store without binding and with emitEvents enabled, each call of
\* the synchronous State is the same step as the StateAsync call with the
\* same arguments: same result and error, same in-memory mapping and handler
\* register afterwards, same handlers invoked with the same payloads in the
\* same order.
C22_StateIsStateAsyncInMemory ==
  [][ /\ \A key \in Keys : State_get(key) <=> get(key)
      /\ \A key \in Keys, value \in Values :
           State_set(key, value) <=> set(key, value, Undefined)
      /\ \A key \in Keys : State_has(key) <=> has(key)
      /\ State_getAll <=> getAll
      /\ \A event \in EventNames, handler \in Handlers :
           State_on(event, handler) <=> on(event, handler)
      /\ \A event \in EventNames, data \in ManualData :
           State_emit(event, data) <=> emit(event, data) ]_vars

C22_Witness ==
  /\ ~storage.attached /\ emitEvents
  /\ last.op = "set" /\ last.key = "k" /\ last.value = "a"
  /\ Len(last.invoked) = 2
  /\ last.invoked[1].data = <<Null, "a">>
  /\ last.invoked[2].handler = "h1"
  /\ GetProp(currentState, "k") = "a"

\* What get(key) and has(key) of the store can resolve to in this state.
GetResults(key) ==
  { getResult(key, call) :
      call \in IF storage.attached THEN BindingGet(key) ELSE {NoCall} }
HasResults(key) ==
  { hasResult(key, call) :
      call \in IF storage.attached /\ storage.exists
                 THEN BindingExists(key) ELSE {NoCall} }

\* Steps of the caller on its initialState object, and of the second store.
OutsideOps ==
  {"initial.put", "initial.delete", "peer.set", "peer.delete", "peer.clear"}

C24_ReadsChangeNothing ==
  [][ (last'.op \in {"get", "has", "getAll"}) =>
        /\ currentState' = currentState
        /\ eventHandlers' = eventHandlers
        /\ emitEvents' = emitEvents /\ storage' = storage
        /\ remote' = remote
        /\ last'.call.name \in
             (CASE last'.op = "get" -> {"none", "get"}
                [] last'.op = "has" -> {"none", "exists"}
                [] last'.op = "getAll" -> {"none"}) ]_vars

C24_Witness ==
  /\ last.op = "get" /\ last.key = "k"
  /\ last.call.name = "get" /\ ~last.call.threw /\ last.call.ret = "a"
  /\ last.result = "a"
  /\ ~HasProp(currentState, "k")

\* C25: with emitEvents enabled, a set, delete or clear invokes the handlers
\* of "<key>.changed" with {oldValue, newValue} for each key whose in-memory
\* value it changed.
C25_EveryChangeIsNotified ==
  [][ (emitEvents /\ last'.op \in {"set", "delete", "clear"}) =>
        \A key \in Keys :
          (GetProp(currentState', key) /= GetProp(currentState, key)) =>
            \A i \in 1..Len(HandlersFor(ChangedEvent(key))) :
              \E j \in 1..Len(last'.invoked) :
                /\ last'.invoked[j].handler = HandlersFor(ChangedEvent(key))[i]
                /\ last'.invoked[j].event = ChangedEvent(key)
                /\ last'.invoked[j].data =
                     <<GetProp(currentState, key), GetProp(currentState', key)>> ]_vars

\* C26: in the synchronous State the change event is fired after the write,
\* and what a handler does runs inside the outer set. In every set that
\* returns: the first handler of a "k.changed" emission that reads k gets the
\* new value; and when a handler sets k and emits a manual event, the
\* handlers of that inner set and of that emission have all been invoked, in
\* that order and before the outer set's next handler, and memory holds the
\* inner set's value when the outer set returns.
C26_ChainCompletesInsideSet ==
  [][ (last'.op = "set" /\ last'.error = "none") =>
        LET log == last'.invoked
            kh == HandlersFor("k.changed")
            ch == HandlersFor("custom.event")
        IN \A i \in 1..Len(log) :
             /\ ( /\ log[i].handler \in Reentrant
                  /\ log[i].event = "k.changed"
                  /\ (i = 1 \/ log[i-1].depth < log[i].depth) )
                => log[i].saw = log[i].data[2]
             /\ (log[i].handler \in Reentrant /\ log[i].saw = "a") =>
                  /\ Len(log) >= i + Len(kh) + Len(ch)
                  /\ \A j \in 1..Len(kh) :
                       /\ log[i+j].handler = kh[j]
                       /\ log[i+j].event = "k.changed"
                       /\ log[i+j].data = <<"a", Null>>
                       /\ log[i+j].depth = log[i].depth + 1
                  /\ \A j \in 1..Len(ch) :
                       /\ log[i+Len(kh)+j].handler = ch[j]
                       /\ log[i+Len(kh)+j].event = "custom.event"
                       /\ log[i+Len(kh)+j].depth = log[i].depth + 1
                  /\ GetProp(currentState', "k") = Null ]_vars

C26_Witness ==
  /\ last.op = "set" /\ last.key = "k" /\ last.value = "a"
  /\ last.error = "none"
  /\ Len(last.invoked) = 3
  /\ last.invoked[1].handler = "hr" /\ last.invoked[1].saw = "a"
  /\ last.invoked[2].handler = "hr" /\ last.invoked[2].saw = Null
  /\ last.invoked[3].handler = "h1" /\ last.invoked[3].event = "custom.event"
  /\ GetProp(currentState, "k") = Null

\* C27: the store performs no reconciliation. The binding's set is called
\* only by a set of the caller, for that call's key and value; no other
\* operation adds or changes an entry of the binding; and a get whose
\* delegated read succeeds resolves to the binding's answer, absent
\* included, whatever memory holds for the key.
C27_NoReconciliation ==
  [][ /\ (last'.call.name = "set") => last'.op = "set"
      /\ \A key \in Keys :
           (key \in DOMAIN remote' /\
              (key \notin DOMAIN remote \/ remote'[key] /= remote[key]))
           => /\ last'.op = "set" /\ last'.key = key
              /\ remote'[key] = last'.value
      /\ (last'.op = "get" /\ storage.attached /\ ~last'.call.threw) =>
           /\ last'.result = Nullish(last'.call.ret)
           /\ storage.faithful =>
                last'.result = Nullish(OrNull(MapGet(remote, last'.key))) ]_vars

C27_Witness ==
  /\ storage.attached /\ storage.faithful
  /\ last.op = "get" /\ last.key = "k"
  /\ ~last.call.threw /\ last.result = Undefined
  /\ "k" \notin DOMAIN remote
  /\ "k" \in DOMAIN currentState /\ currentState["k"] = "a"
  /\ getAllResult["k"] = "a"

\* C28: on a store without binding, for every key that is neither in the
\* initial state nor set since the last delete of it or clear (the keys the
\* in-memory mapping does not hold), has resolves to false and get to
\* undefined.
C28_UnsetKeyIsAbsent ==
  [][ (~storage.attached /\ last'.key \notin DOMAIN currentState) =>
        /\ (last'.op = "has") => last'.result = Bool(FALSE)
        /\ (last'.op = "get") => last'.result = Undefined ]_vars

\* C29: set(k, v, ttl) hands ttl unchanged to its one storage.set call, and
\* the store does not act on it: a value that reached memory (no binding, or
\* failed delegated write) is in memory whatever the ttl, and an entry of
\* memory changes only in a set or delete of its key or in a clear.
C29_TtlIsPassedThrough ==
  [][ /\ (last'.op = "set") =>
           /\ storage.attached =>
                last'.call.name = "set" /\ last'.call.ttl = last'.ttl
           /\ ~storage.attached => last'.call.name = "none"
           /\ (~storage.attached \/ last'.call.threw) =>
                /\ last'.key \in DOMAIN currentState'
                /\ currentState'[last'.key] = last'.value
      /\ \A key \in Keys :
           ( \/ (key \in DOMAIN currentState) /= (key \in DOMAIN currentState')
             \/ /\ key \in DOMAIN currentState /\ key \in DOMAIN currentState'
                /\ currentState'[key] /= currentState[key] )
           => \/ last'.op \in {"set", "delete"} /\ last'.key = key
              \/ last'.op = "clear" ]_vars

C29_Witness ==
  /\ storage.attached
  /\ last.op = "set" /\ last.key = "k" /\ last.value = "a"
  /\ last.ttl = "5000" /\ last.call.ttl = "5000" /\ last.call.threw
  /\ "k" \in DOMAIN currentState /\ currentState["k"] = "a"

\* C30 as stated: the oldValue of every change event of set is the value
\* memory held for the key immediately before the call resumed to write
\* memory and fire the event.
C30_OldValueIsCurrent ==
  [][ (last'.op = "set") =>
        \A i \in 1..Len(last'.invoked) :
          last'.invoked[i].data[1] = GetProp(currentState, last'.key) ]_vars

\* C30, amended: the oldValue of every change event of set is the value
\* memory held for the key when the set was invoked, before it suspended on
\* the binding; what other calls did to memory while it was suspended is not
\* reflected.
C30_OldValueIsFromInvocation ==
  [][ /\ (last'.op = "set.call") =>
           LET id == Len(inflight.settled) + Cardinality(DOMAIN inflight.pending) + 1
           IN /\ id \in DOMAIN inflight'.pending
              /\ inflight'.pending[id].oldValue = GetProp(currentState, last'.key)
      /\ (last'.op = "set") =>
           LET this == inflight'.settled[Len(inflight'.settled)]
           IN /\ this.key = last'.key /\ this.value = last'.value
              /\ Len(last'.invoked) >= (IF HandlersFor("k.changed") = <<>> THEN 0 ELSE 1)
              /\ \A i \in 1..Len(last'.invoked) :
                   last'.invoked[i].data = <<this.oldValue, this.value>> ]_vars

C30_Witness ==
  /\ last.op = "set" /\ last.key = "k"
  /\ Len(inflight.settled) = 2
  /\ inflight.settled[1].started = 0 /\ inflight.settled[2].started = 0
  /\ inflight.settled[1].call.threw /\ inflight.settled[1].value = "a"
  /\ Len(last.invoked) = 1
  /\ last.invoked[1].data[1] = Undefined

C32_GetAndHasAgree ==
  (~storage.attached \/ storage.faithful) =>
    \A key \in Keys :
      \A g \in IF storage.attached
                 THEN {c \in BindingGet(key) : ~c.threw} ELSE {NoCall} :
        \A h \in IF storage.attached /\ storage.exists
                   THEN {c \in BindingExists(key) : ~c.threw} ELSE {NoCall} :
          (getResult(key, g) /= Undefined) => hasResult(key, h) = Bool(TRUE)

\* C33: an emit pass invokes only the handlers that were registered for the
\* event when the pass started: the number of handlers it has invoked never
\* exceeds that number.
C33_PassInvokesOnlyInitialHandlers ==
  emission.active => emission.next - 1 <= emission.started

\* C34: when a handler throws during the change event of set(k, v), the
\* handlers registered after it are not invoked and the error reaches the
\* caller of set, but nothing is rolled back: memory holds v for k (no
\* binding, or failed delegated write), the binding holds v for k after a
\* successful delegated write, and the handler register is unchanged.
C34_ThrowDoesNotRollBack ==
  [][ ( /\ last'.op = "set"
        /\ emitEvents
        /\ \E i \in 1..Len(HandlersFor(ChangedEvent(last'.key))) :
             HandlersFor(ChangedEvent(last'.key))[i] \in Throwing )
      => LET hs == UntilThrow(HandlersFor(ChangedEvent(last'.key)))
         IN /\ last'.error = "handler"
            /\ Len(last'.invoked) = Len(hs)
            /\ \A i \in 1..Len(hs) : last'.invoked[i].handler = hs[i]
            /\ eventHandlers' = eventHandlers
            /\ (~storage.attached \/ last'.call.threw) =>
                 /\ last'.key \in DOMAIN currentState'
                 /\ currentState'[last'.key] = last'.value
            /\ (storage.attached /\ storage.faithful /\ ~last'.call.threw) =>
                 /\ last'.key \in DOMAIN remote'
                 /\ remote'[last'.key] = last'.value ]_vars

C34_Witness ==
  /\ ~storage.attached /\ emitEvents
  /\ last.op = "set" /\ last.key = "k" /\ last.value = "a"
  /\ last.error = "handler"
  /\ HandlersFor("k.changed") = <<"hx", "h1">>
  /\ Len(last.invoked) = 1 /\ last.invoked[1].handler = "hx"
  /\ "k" \in DOMAIN currentState /\ currentState["k"] = "a"

\* C35: with a binding that answers from what it holds, when the delegated
\* write of set(k, v) and the delegated read of the get(k) that follows
\* both succeed, that get resolves to v, for null as for any other value.
C35_NullSurvivesTheBinding ==
  [][ ( /\ storage.attached /\ storage.faithful
        /\ last.op = "set" /\ last.call.name = "set" /\ ~last.call.threw
        /\ last.error = "none"
        /\ last'.op = "get" /\ last'.key = last.key
        /\ last'.call.name = "get" /\ ~last'.call.threw )
      => last'.result = last.value ]_vars

====
